---------------------------- MODULE Spec2Model ----------------------------
(***************************************************************************)
(* A model of the capybarish pub/sub layer (arduino/src/capybarish_pubsub.h):*)
(* TopicRegistry, Publisher<T>, Subscription<T>.  Each class is modelled as  *)
(* a record of its fields, each method as an operator from the object (and   *)
(* the transport state it touches) to the object after the call, and each    *)
(* call as an action applying that operator.                                 *)
(*                                                                           *)
(* The UDP transport (WiFiUDP) and the clock (micros()) are the environment: *)
(* a socket is a FIFO queue of datagrams, parsePacket() takes the head of    *)
(* that queue, endPacket() accepts or rejects a datagram, micros() reads a   *)
(* clock that only moves forward.                                            *)
(***************************************************************************)
EXTENDS Integers, Sequences, FiniteSets, TLC

(***************************************************************************)
(* Bounds of the model.                                                      *)
(***************************************************************************)
\* datagrams that reach the subscription's socket in one behaviour
MaxArrivals == 3
\* largest value the clock reaches
MaxClock == 2
\* largest qos.depth a subscription is constructed with
MaxDepth == 2
\* publish() calls in one behaviour
MaxPublishes == 3
\* longest topic name autoPort is called with
MaxNameLen == 7
\* largest value the clock reaches while the Timer is polled
MaxTimerClock == 5
\* longest Timer period, in clock units
MaxPeriod == 2
\* sleep() calls in one behaviour
MaxSleeps == 3
\* fires of the Timer in one behaviour
MaxFires == 3
\* create calls on the Node in one behaviour
MaxCreates == 2
\* send() calls on the UDPComm in one behaviour
MaxSends == 3

(***************************************************************************)
(* The message type T.  sizeof(T) is fixed by the template argument; the    *)
(* model takes a two-byte T whose value is the little-endian integer its     *)
(* bytes spell (the raw layout copy of memcpy).                              *)
(***************************************************************************)
SizeofT == 2

RECURSIVE Decode(_)
\* memcpy(&msg, buffer, sizeof(T)): the value whose raw layout is buffer
Decode(buffer) ==
    IF buffer = <<>> THEN 0
    ELSE Head(buffer) + 256 * Decode(Tail(buffer))

RECURSIVE EncodeN(_, _)
EncodeN(msg, n) ==
    IF n = 0 THEN <<>>
    ELSE <<msg % 256>> \o EncodeN(msg \div 256, n - 1)

\* (mutant of Encode) writes the bytes most significant first
Encode_BigEndian(msg) ==
    [i \in 1..SizeofT |-> EncodeN(msg, SizeofT)[SizeofT + 1 - i]]

\* reinterpret_cast<const uint8_t*>(&msg): the sizeof(T) raw bytes of msg
Encode(msg) == EncodeN(msg, SizeofT)

\* the value of out / msg before anything was decoded into it
NoMsg == -1

VARIABLES
    now,        \* the clock micros() reads
    op,         \* the call made by the last step
    arg,        \* the argument of that call
    ret,        \* what that call returned
    \* ---- Subscription<T> and its socket
    sub,        \* the Subscription object's fields
    rxq,        \* datagrams pending on the subscription's socket, oldest first
    arrived,    \* datagrams that reached the socket so far
    out,        \* the caller's variable passed to take(out)
    calls,      \* the messages the callback was invoked with during the last call
    lastSize,   \* the packetSize the last call's last parsePacket() returned
    delivered,  \* every message handed to the application, in the order handed
    \* ---- Publisher<T> and its socket
    pub,        \* the Publisher object's fields
    wire,       \* datagrams the transport accepted from the publisher
    tx,         \* datagrams the last publish handed to endPacket()
    pubInitOk,  \* whether some pub->init() call has returned true
    \* ---- TopicRegistry
    topics,     \* _topics[0 .. _numTopics-1]
    firstPort,  \* per name, the port of its first registerTopic call
    \* ---- Timer
    timer,      \* the Timer object's fields
    tmCalls,    \* invocations of the timer callback during the last call
    lastFireAt, \* when the timer last fired, if it has
    resumedAt,  \* when resume() was last called, if no fire followed it yet
    \* ---- Rate
    rate,       \* the Rate object's fields
    blocked,    \* microseconds the last sleep() blocked its caller
    elapsedSeen,\* the elapsed time the last sleep() computed
    sleeps,     \* sleep() calls made so far
    \* ---- Node
    node,       \* the Node's collections: publishers, subscriptions, timers
    live,       \* Publisher and Subscription objects allocated and not deleted
    creates,    \* create calls made on the Node so far
    born,       \* per owned timer, the clock value at which it was created
    polled,     \* the timers the last Node::spinOnce polled, in order,
                \* each with whether it fired
    \* ---- UDPComm<TReceive, TSend>
    comm,       \* the UDPComm object's _status, _config and _stats
    wifi,       \* whether WiFi.status() is WL_CONNECTED
    beginFailed \* whether the last begin() returned false

envVars == <<now, op, arg, ret>>
subVars == <<sub, rxq, arrived, out, calls, lastSize, delivered>>
pubVars == <<pub, wire, tx, pubInitOk>>
regVars == <<topics, firstPort>>
timerVars == <<timer, tmCalls, lastFireAt, resumedAt>>
rateVars == <<rate, blocked, elapsedSeen, sleeps>>
nodeVars == <<node, live, creates, born, polled>>
commVars == <<comm, wifi, beginFailed>>
vars == <<envVars, subVars, pubVars, regVars, timerVars, rateVars, nodeVars, commVars>>

(***************************************************************************)
(* The transport, as the Subscription uses it.                               *)
(***************************************************************************)
\* The k-th datagram to arrive, of the given length: its first byte is k, so
\* that two datagrams never carry the same payload.
Datagram(k, len) == [i \in 1..len |-> k + i - 1]

\* the lengths a datagram arrives with: shorter than T, exactly T, longer
\* (an empty datagram is left out: parsePacket() returns 0 for it as for none)
DatagramLens == 1..(SizeofT + 1)

\* (mutant of ParsePacket) reports the head datagram without taking it off
\* the queue
ParsePacket_Peek(q) ==
    IF q = <<>> THEN [size |-> 0, pkt |-> <<>>, rest |-> q]
    ELSE [size |-> Len(Head(q)), pkt |-> Head(q), rest |-> q]

\* _udp.parsePacket(): 0 when nothing is pending, else the next datagram
\* becomes the current packet and its length is returned
ParsePacket(q) ==
    IF q = <<>> THEN [size |-> 0, pkt |-> <<>>, rest |-> q]
    ELSE [size |-> Len(Head(q)), pkt |-> Head(q), rest |-> Tail(q)]

\* _udp.read(buffer, n) on a current packet of at least n bytes
ReadBytes(pkt, n) == SubSeq(pkt, 1, n)

(***************************************************************************)
(* Subscription<T>                                                           *)
(***************************************************************************)
\* Subscription::Subscription
Subscription(callback, depth) ==
    [initialized |-> FALSE, hasCallback |-> callback, depth |-> depth,
     recvCount |-> 0, dropCount |-> 0, lastRecvTime |-> 0]

\* Subscription::init with the outcome of _udp.begin(_localPort)
Subscription_init(s, bound) == [s EXCEPT !.initialized = bound]

\* The result of a call that touched nothing.
SubNoop(s, q, o, size) ==
    [sub |-> s, rxq |-> q, ret |-> FALSE, out |-> o, calls |-> <<>>, size |-> size]

\* (mutant of Subscription_take) leaves _lastRecvTime as it was
Subscription_take_StaleTime(s, q, t, o) ==
    IF ~s.initialized THEN SubNoop(s, q, o, 0)
    ELSE LET p == ParsePacket(q) IN
         IF p.size = 0 THEN SubNoop(s, q, o, 0)
         ELSE IF p.size < SizeofT
              THEN [sub |-> [s EXCEPT !.dropCount = @ + 1], rxq |-> p.rest,
                    ret |-> FALSE, out |-> o, calls |-> <<>>, size |-> p.size]
              ELSE [sub |-> [s EXCEPT !.recvCount = @ + 1],
                    rxq |-> p.rest, ret |-> TRUE,
                    out |-> Decode(ReadBytes(p.pkt, SizeofT)),
                    calls |-> <<>>, size |-> p.size]

RECURSIVE Subscription_take_Retry(_, _, _, _)
\* (mutant of Subscription_take) after dropping a short datagram, goes on to
\* the next one in the same call
Subscription_take_Retry(s, q, t, o) ==
    IF ~s.initialized THEN SubNoop(s, q, o, 0)
    ELSE LET p == ParsePacket(q) IN
         IF p.size = 0 THEN SubNoop(s, q, o, 0)
         ELSE IF p.size < SizeofT
              THEN Subscription_take_Retry([s EXCEPT !.dropCount = @ + 1],
                                           p.rest, t, o)
              ELSE [sub |-> [s EXCEPT !.recvCount = @ + 1, !.lastRecvTime = t],
                    rxq |-> p.rest, ret |-> TRUE,
                    out |-> Decode(ReadBytes(p.pkt, SizeofT)),
                    calls |-> <<>>, size |-> p.size]

\* Subscription::take(T& msg)
Subscription_take(s, q, t, o) ==
    IF ~s.initialized THEN SubNoop(s, q, o, 0)
    ELSE LET p == ParsePacket(q) IN
         IF p.size = 0 THEN SubNoop(s, q, o, 0)
         ELSE IF p.size < SizeofT
              THEN [sub |-> [s EXCEPT !.dropCount = @ + 1], rxq |-> p.rest,
                    ret |-> FALSE, out |-> o, calls |-> <<>>, size |-> p.size]
              ELSE [sub |-> [s EXCEPT !.recvCount = @ + 1, !.lastRecvTime = t],
                    rxq |-> p.rest, ret |-> TRUE,
                    out |-> Decode(ReadBytes(p.pkt, SizeofT)),
                    calls |-> <<>>, size |-> p.size]

\* (mutant of Subscription_spinOnce) compares with <= for <: a datagram of
\* exactly sizeof(T) bytes is dropped too
Subscription_spinOnce_LeqSize(s, q, t, o) ==
    IF ~s.initialized THEN SubNoop(s, q, o, 0)
    ELSE LET p == ParsePacket(q) IN
         IF p.size = 0 THEN SubNoop(s, q, o, 0)
         ELSE IF p.size <= SizeofT
              THEN [sub |-> [s EXCEPT !.dropCount = @ + 1], rxq |-> p.rest,
                    ret |-> FALSE, out |-> o, calls |-> <<>>, size |-> p.size]
              ELSE LET msg == Decode(ReadBytes(p.pkt, SizeofT)) IN
                   [sub |-> [s EXCEPT !.recvCount = @ + 1, !.lastRecvTime = t],
                    rxq |-> p.rest, ret |-> TRUE, out |-> o,
                    calls |-> IF s.hasCallback THEN <<msg>> ELSE <<>>,
                    size |-> p.size]

\* (mutant of Subscription_spinOnce) flushes a short datagram without
\* counting it
Subscription_spinOnce_DropUncounted(s, q, t, o) ==
    IF ~s.initialized THEN SubNoop(s, q, o, 0)
    ELSE LET p == ParsePacket(q) IN
         IF p.size = 0 THEN SubNoop(s, q, o, 0)
         ELSE IF p.size < SizeofT
              THEN [sub |-> s, rxq |-> p.rest,
                    ret |-> FALSE, out |-> o, calls |-> <<>>, size |-> p.size]
              ELSE LET msg == Decode(ReadBytes(p.pkt, SizeofT)) IN
                   [sub |-> [s EXCEPT !.recvCount = @ + 1, !.lastRecvTime = t],
                    rxq |-> p.rest, ret |-> TRUE, out |-> o,
                    calls |-> IF s.hasCallback THEN <<msg>> ELSE <<>>,
                    size |-> p.size]

\* Subscription::spinOnce()
Subscription_spinOnce(s, q, t, o) ==
    IF ~s.initialized THEN SubNoop(s, q, o, 0)
    ELSE LET p == ParsePacket(q) IN
         IF p.size = 0 THEN SubNoop(s, q, o, 0)
         ELSE IF p.size < SizeofT
              THEN [sub |-> [s EXCEPT !.dropCount = @ + 1], rxq |-> p.rest,
                    ret |-> FALSE, out |-> o, calls |-> <<>>, size |-> p.size]
              ELSE LET msg == Decode(ReadBytes(p.pkt, SizeofT)) IN
                   [sub |-> [s EXCEPT !.recvCount = @ + 1, !.lastRecvTime = t],
                    rxq |-> p.rest, ret |-> TRUE, out |-> o,
                    calls |-> IF s.hasCallback THEN <<msg>> ELSE <<>>,
                    size |-> p.size]

RECURSIVE SpinAllLoop_OffByOne(_, _, _, _, _, _)
\* (mutant of the loop of spinAll) breaks on count > depth for count >= depth
SpinAllLoop_OffByOne(s, q, t, o, count, cs) ==
    LET r == Subscription_spinOnce(s, q, t, o) IN
    IF ~r.ret
    THEN [sub |-> r.sub, rxq |-> r.rxq, ret |-> count, out |-> o,
          calls |-> cs, size |-> r.size]
    ELSE IF count + 1 > s.depth
         THEN [sub |-> r.sub, rxq |-> r.rxq, ret |-> count + 1, out |-> o,
               calls |-> cs \o r.calls, size |-> r.size]
         ELSE SpinAllLoop_OffByOne(r.sub, r.rxq, t, o, count + 1, cs \o r.calls)

\* (mutant of Subscription_spinAll)
Subscription_spinAll_OffByOne(s, q, t, o) ==
    SpinAllLoop_OffByOne(s, q, t, o, 0, <<>>)

RECURSIVE SpinAllLoop(_, _, _, _, _, _)
\* the while loop of spinAll, entered with `count` messages processed
SpinAllLoop(s, q, t, o, count, cs) ==
    LET r == Subscription_spinOnce(s, q, t, o) IN
    IF ~r.ret
    THEN [sub |-> r.sub, rxq |-> r.rxq, ret |-> count, out |-> o,
          calls |-> cs, size |-> r.size]
    ELSE IF count + 1 >= s.depth
         THEN [sub |-> r.sub, rxq |-> r.rxq, ret |-> count + 1, out |-> o,
               calls |-> cs \o r.calls, size |-> r.size]
         ELSE SpinAllLoop(r.sub, r.rxq, t, o, count + 1, cs \o r.calls)

\* Subscription::spinAll()
Subscription_spinAll(s, q, t, o) == SpinAllLoop(s, q, t, o, 0, <<>>)

(***************************************************************************)
(* Publisher<T>                                                              *)
(***************************************************************************)
\* Publisher::Publisher
Publisher(localPort, broadcast) ==
    [initialized |-> FALSE, localPort |-> localPort, broadcast |-> broadcast,
     pubCount |-> 0, lastPubTime |-> 0]

\* Publisher::init with the outcome of _udp.begin(_localPort), were it called
Publisher_init(p, bound) ==
    [p EXCEPT !.initialized = IF p.localPort > 0 THEN bound ELSE TRUE]

\* (mutant of Publisher_publish) without the check of _initialized
Publisher_publish_NoInitCheck(p, msg, t, accepted) ==
    IF accepted
    THEN [pub |-> [p EXCEPT !.pubCount = @ + 1, !.lastPubTime = t],
          ret |-> TRUE, tx |-> <<Encode(msg)>>]
    ELSE [pub |-> p, ret |-> FALSE, tx |-> <<Encode(msg)>>]

\* (mutant of Publisher_publish) counts the send before it knows the outcome
Publisher_publish_CountFirst(p, msg, t, accepted) ==
    IF ~p.initialized
    THEN [pub |-> p, ret |-> FALSE, tx |-> <<>>]
    ELSE [pub |-> [p EXCEPT !.pubCount = @ + 1, !.lastPubTime = t],
          ret |-> accepted, tx |-> <<Encode(msg)>>]

\* Publisher::publish(msg) with the outcome of _udp.endPacket(), were it called
Publisher_publish(p, msg, t, accepted) ==
    IF ~p.initialized
    THEN [pub |-> p, ret |-> FALSE, tx |-> <<>>]
    ELSE IF accepted
         THEN [pub |-> [p EXCEPT !.pubCount = @ + 1, !.lastPubTime = t],
               ret |-> TRUE, tx |-> <<Encode(msg)>>]
         ELSE [pub |-> p, ret |-> FALSE, tx |-> <<Encode(msg)>>]

\* Publisher::publishRaw(data, len) with the outcome of _udp.endPacket(),
\* were it called; _pubCount and _lastPubTime are not written
Publisher_publishRaw(p, data, accepted) ==
    IF ~p.initialized
    THEN [pub |-> p, ret |-> FALSE, tx |-> <<>>]
    ELSE [pub |-> p, ret |-> accepted, tx |-> <<data>>]

(***************************************************************************)
(* TopicRegistry                                                             *)
(***************************************************************************)
MAX_TOPICS == 32

\* strcmp(_topics[i].name, name) == 0 for some i < _numTopics
Registered(ts, name) == \E i \in 1..Len(ts) : ts[i].name = name

\* (mutant of TopicRegistry_registerTopic) a second registration of a name
\* overwrites its entry
TopicRegistry_registerTopic_Overwrite(ts, name, port, msgSize, isPublisher) ==
    LET e == [name |-> name, port |-> port, msgSize |-> msgSize,
              isPublisher |-> isPublisher] IN
    IF Len(ts) >= MAX_TOPICS THEN [topics |-> ts, ret |-> FALSE]
    ELSE IF Registered(ts, name)
         THEN [topics |-> [i \in 1..Len(ts) |->
                             IF ts[i].name = name THEN e ELSE ts[i]],
               ret |-> TRUE]
         ELSE [topics |-> Append(ts, e), ret |-> TRUE]

\* (mutant of TopicRegistry_registerTopic) without the search for the name
TopicRegistry_registerTopic_NoLookup(ts, name, port, msgSize, isPublisher) ==
    IF Len(ts) >= MAX_TOPICS THEN [topics |-> ts, ret |-> FALSE]
    ELSE [topics |-> Append(ts, [name |-> name, port |-> port,
                                 msgSize |-> msgSize,
                                 isPublisher |-> isPublisher]),
          ret |-> TRUE]

\* (mutant of TopicRegistry_registerTopic) tests _numTopics > MAX_TOPICS
TopicRegistry_registerTopic_OffByOne(ts, name, port, msgSize, isPublisher) ==
    IF Len(ts) > MAX_TOPICS THEN [topics |-> ts, ret |-> FALSE]
    ELSE IF Registered(ts, name) THEN [topics |-> ts, ret |-> TRUE]
    ELSE [topics |-> Append(ts, [name |-> name, port |-> port,
                                 msgSize |-> msgSize,
                                 isPublisher |-> isPublisher]),
          ret |-> TRUE]

\* TopicRegistry::registerTopic
TopicRegistry_registerTopic(ts, name, port, msgSize, isPublisher) ==
    IF Len(ts) >= MAX_TOPICS THEN [topics |-> ts, ret |-> FALSE]
    ELSE IF Registered(ts, name) THEN [topics |-> ts, ret |-> TRUE]
    ELSE [topics |-> Append(ts, [name |-> name, port |-> port,
                                 msgSize |-> msgSize,
                                 isPublisher |-> isPublisher]),
          ret |-> TRUE]

\* TopicRegistry::getPort: the first entry of that name, 0 when there is none
TopicRegistry_getPort(ts, name) ==
    IF Registered(ts, name)
    THEN ts[CHOOSE i \in 1..Len(ts) :
                /\ ts[i].name = name
                /\ \A j \in 1..(i - 1) : ts[j].name # name].port
    ELSE 0

\* (mutant of TopicRegistry_autoPort's loop) hash declared uint16_t
AutoPortLoop_Hash16(name, hash) ==
    LET F[i \in 0..Len(name)] ==
            IF i = 0 THEN hash
            ELSE [hi |-> 0, lo |-> (F[i - 1].lo * 31 + name[i]) % 65536]
    IN F[Len(name)]

\* uint32_t arithmetic, a value held as two 16-bit halves:
\* (h * m + c) mod 2^32, for m and c below 2^15
U32MulAdd(h, m, c) ==
    LET lo == h.lo * m + c
        hi == h.hi * m + (lo \div 65536) IN
    [hi |-> hi % 65536, lo |-> lo % 65536]

\* (a + b) mod 2^32
U32Add(a, b) ==
    LET lo == a.lo + b.lo
        hi == a.hi + b.hi + (lo \div 65536) IN
    [hi |-> hi % 65536, lo |-> lo % 65536]

\* h % m, for m up to 2^15
U32Mod(h, m) == ((h.hi % m) * (65536 % m) + h.lo) % m

U32Zero == [hi |-> 0, lo |-> 0]

\* while (*name) hash = hash * 31 + *name++;
AutoPortLoop(name, hash) ==
    LET F[i \in 0..Len(name)] ==
            IF i = 0 THEN hash
            ELSE U32MulAdd(F[i - 1], 31, name[i])
    IN F[Len(name)]

\* TopicRegistry::autoPort: a name is the sequence of its characters; the
\* uint16_t result of basePort + (hash % 1000)
TopicRegistry_autoPort(name, basePort) ==
    (basePort + U32Mod(AutoPortLoop(name, U32Zero), 1000)) % 65536

\* the default of autoPort's basePort parameter
DefaultBasePort == 7000

(***************************************************************************)
(* Timer                                                                     *)
(***************************************************************************)
\* Timer::Timer, with _periodUs = periodSec * 1000000
Timer(periodUs, callback) ==
    [periodUs |-> periodUs, hasCallback |-> callback,
     lastFire |-> 0, callCount |-> 0, active |-> TRUE]

\* (mutant of Timer_spinOnce) advances _lastFire by one period, so that missed
\* periods are caught up
Timer_spinOnce_CatchUp(tm, t) ==
    IF ~tm.active THEN [timer |-> tm, ret |-> FALSE, calls |-> 0]
    ELSE IF t - tm.lastFire >= tm.periodUs
         THEN [timer |-> [tm EXCEPT !.lastFire = @ + tm.periodUs,
                                    !.callCount = @ + 1],
               ret |-> TRUE,
               calls |-> IF tm.hasCallback THEN 1 ELSE 0]
         ELSE [timer |-> tm, ret |-> FALSE, calls |-> 0]

\* (mutant of Timer_spinOnce) without the check of _active
Timer_spinOnce_IgnoreActive(tm, t) ==
    IF t - tm.lastFire >= tm.periodUs
    THEN [timer |-> [tm EXCEPT !.lastFire = t, !.callCount = @ + 1],
          ret |-> TRUE,
          calls |-> IF tm.hasCallback THEN 1 ELSE 0]
    ELSE [timer |-> tm, ret |-> FALSE, calls |-> 0]

\* Timer::spinOnce with t the value micros() returns (the clock does not
\* wrap in the model, so now - _lastFire never underflows)
Timer_spinOnce(tm, t) ==
    IF ~tm.active THEN [timer |-> tm, ret |-> FALSE, calls |-> 0]
    ELSE IF t - tm.lastFire >= tm.periodUs
         THEN [timer |-> [tm EXCEPT !.lastFire = t, !.callCount = @ + 1],
               ret |-> TRUE,
               calls |-> IF tm.hasCallback THEN 1 ELSE 0]
         ELSE [timer |-> tm, ret |-> FALSE, calls |-> 0]

\* Timer::reset
Timer_reset(tm, t) == [tm EXCEPT !.lastFire = t]

\* Timer::cancel
Timer_cancel(tm) == [tm EXCEPT !.active = FALSE]

\* (mutant of Timer_resume) without the reset()
Timer_resume_NoReset(tm, t) == [tm EXCEPT !.active = TRUE]

\* Timer::resume
Timer_resume(tm, t) == Timer_reset([tm EXCEPT !.active = TRUE], t)

(***************************************************************************)
(* Rate                                                                      *)
(***************************************************************************)
\* sleeps longer than this many microseconds go through delay()
DelayThresholdUs == 1000
\* delay() counts in milliseconds
UsPerMs == 1000

\* Rate::Rate at clock value t, with _periodUs = 1000000 / hz
Rate(periodUs, t) == [periodUs |-> periodUs, lastTime |-> t]

\* (mutant of Rate_sleep) sleeps a whole period whatever has elapsed
Rate_sleep_WholePeriod(r, t) ==
    LET elapsed == t - r.lastTime
        blockedUs == r.periodUs IN
    [rate |-> [r EXCEPT !.lastTime = t + blockedUs],
     blocked |-> blockedUs, elapsed |-> elapsed]

\* Rate::sleep with t the value its first micros() returns; delay(ms) blocks
\* for ms milliseconds, delayMicroseconds(us) for us microseconds, and the
\* second micros() reads the clock after that wait
Rate_sleep(r, t) ==
    LET elapsed == t - r.lastTime
        sleepUs == r.periodUs - elapsed
        blockedUs == IF elapsed < r.periodUs
                     THEN IF sleepUs > DelayThresholdUs
                          THEN (sleepUs \div UsPerMs) * UsPerMs
                          ELSE sleepUs
                     ELSE 0 IN
    [rate |-> [r EXCEPT !.lastTime = t + blockedUs],
     blocked |-> blockedUs, elapsed |-> elapsed]

(***************************************************************************)
(* Node                                                                      *)
(***************************************************************************)
MAX_PUBLISHERS == 8
MAX_SUBSCRIPTIONS == 8
MAX_TIMERS == 8

\* Node::Node
Node == [publishers |-> <<>>, subscriptions |-> <<>>, timers |-> <<>>]

\* The result of a create call that returned nullptr at its capacity check:
\* n the Node, ts the registry's table, lv the objects allocated.
NodeFull(n, ts, lv) == [node |-> n, topics |-> ts, live |-> lv, ret |-> FALSE]

\* new Publisher<T>(topic, remoteIP, remotePort, 0, qos, broadcast);
\* pub->init(); _publishers[_numPubs++] = pub
NodeStorePublisher(n, ts, lv, topic, remoteIP, remotePort, broadcast) ==
    LET reg == TopicRegistry_registerTopic(ts, topic, remotePort, SizeofT, TRUE)
        p == Publisher_init(Publisher(0, broadcast), TRUE) IN
    [node |-> [n EXCEPT !.publishers =
                   Append(@, [topic |-> topic, remoteIP |-> remoteIP,
                              remotePort |-> remotePort, obj |-> p])],
     topics |-> reg.topics, live |-> lv + 1, ret |-> TRUE]

\* (mutant of Node_createPublisher) tests _numPubs > MAX_PUBLISHERS
Node_createPublisher_OffByOne(n, ts, lv, topic, remoteIP, remotePort) ==
    IF Len(n.publishers) > MAX_PUBLISHERS THEN NodeFull(n, ts, lv)
    ELSE NodeStorePublisher(n, ts, lv, topic, remoteIP, remotePort, FALSE)

\* Node::createPublisher
Node_createPublisher(n, ts, lv, topic, remoteIP, remotePort) ==
    IF Len(n.publishers) >= MAX_PUBLISHERS THEN NodeFull(n, ts, lv)
    ELSE NodeStorePublisher(n, ts, lv, topic, remoteIP, remotePort, FALSE)

\* Node::createBroadcastPublisher
Node_createBroadcastPublisher(n, ts, lv, topic, remotePort) ==
    IF Len(n.publishers) >= MAX_PUBLISHERS THEN NodeFull(n, ts, lv)
    ELSE NodeStorePublisher(n, ts, lv, topic, "255.255.255.255", remotePort,
                            TRUE)

\* Node::createMulticastPublisher
Node_createMulticastPublisher(n, ts, lv, topic, remotePort, multicastIP) ==
    IF Len(n.publishers) >= MAX_PUBLISHERS THEN NodeFull(n, ts, lv)
    ELSE NodeStorePublisher(n, ts, lv, topic, multicastIP, remotePort, FALSE)

\* (mutant of Node_createSubscription) keeps the subscription only when its
\* init() succeeded, as the multicast variant does
Node_createSubscription_DropFailed(n, ts, lv, topic, callback, localPort, depth, bound) ==
    IF Len(n.subscriptions) >= MAX_SUBSCRIPTIONS THEN NodeFull(n, ts, lv)
    ELSE LET reg == TopicRegistry_registerTopic(ts, topic, localPort, SizeofT,
                                                FALSE)
             sb == Subscription_init(Subscription(callback, depth), bound) IN
         IF sb.initialized
         THEN [node |-> [n EXCEPT !.subscriptions =
                             Append(@, [topic |-> topic,
                                        localPort |-> localPort,
                                        multicast |-> FALSE, obj |-> sb])],
               topics |-> reg.topics, live |-> lv + 1, ret |-> TRUE]
         ELSE [node |-> n, topics |-> reg.topics, live |-> lv, ret |-> FALSE]

\* Node::createSubscription, with the outcome of the bind in sub->init()
Node_createSubscription(n, ts, lv, topic, callback, localPort, depth, bound) ==
    IF Len(n.subscriptions) >= MAX_SUBSCRIPTIONS THEN NodeFull(n, ts, lv)
    ELSE LET reg == TopicRegistry_registerTopic(ts, topic, localPort, SizeofT,
                                                FALSE)
             sb == Subscription_init(Subscription(callback, depth), bound) IN
         [node |-> [n EXCEPT !.subscriptions =
                        Append(@, [topic |-> topic, localPort |-> localPort,
                                   multicast |-> FALSE, obj |-> sb])],
          topics |-> reg.topics, live |-> lv + 1, ret |-> TRUE]

\* Node::createSubscription, the overload without a callback
Node_createSubscriptionPolling(n, ts, lv, topic, localPort, depth, bound) ==
    Node_createSubscription(n, ts, lv, topic, FALSE, localPort, depth, bound)

\* Subscription::initMulticast, with the outcomes of _udp.beginMulticast()
\* and of the _udp.begin() it falls back to
Subscription_initMulticast(sb, joined, bound) ==
    [sb EXCEPT !.initialized = IF joined THEN TRUE ELSE bound]

\* (mutant of Node_createMulticastSubscription) stores the subscription
\* whatever initMulticast returned, as the other create methods do
Node_createMulticastSubscription_KeepFailed(n, ts, lv, topic, callback, localPort, depth, joined, bound) ==
    IF Len(n.subscriptions) >= MAX_SUBSCRIPTIONS THEN NodeFull(n, ts, lv)
    ELSE LET reg == TopicRegistry_registerTopic(ts, topic, localPort, SizeofT,
                                                FALSE)
             sb == Subscription_initMulticast(Subscription(callback, depth),
                                              joined, bound) IN
         [node |-> [n EXCEPT !.subscriptions =
                       Append(@, [topic |-> topic, localPort |-> localPort,
                                  multicast |-> TRUE, obj |-> sb])],
          topics |-> reg.topics, live |-> lv + 1, ret |-> TRUE]

\* Node::createMulticastSubscription
Node_createMulticastSubscription(n, ts, lv, topic, callback, localPort, depth, joined, bound) ==
    IF Len(n.subscriptions) >= MAX_SUBSCRIPTIONS THEN NodeFull(n, ts, lv)
    ELSE LET reg == TopicRegistry_registerTopic(ts, topic, localPort, SizeofT,
                                                FALSE)
             sb == Subscription_initMulticast(Subscription(callback, depth),
                                              joined, bound) IN
         IF sb.initialized
         THEN [node |-> [n EXCEPT !.subscriptions =
                             Append(@, [topic |-> topic,
                                        localPort |-> localPort,
                                        multicast |-> TRUE, obj |-> sb])],
               topics |-> reg.topics, live |-> lv + 1, ret |-> TRUE]
         ELSE [node |-> n, topics |-> reg.topics, live |-> lv, ret |-> FALSE]

\* Node::createTimer
Node_createTimer(n, ts, lv, periodUs, callback) ==
    IF Len(n.timers) >= MAX_TIMERS THEN NodeFull(n, ts, lv)
    ELSE [node |-> [n EXCEPT !.timers = Append(@, Timer(periodUs, callback))],
          topics |-> ts, live |-> lv, ret |-> TRUE]

RECURSIVE NodeSpinLoop(_, _, _, _, _)
\* for (size_t i = 0; i < _numTimers; i++) if (_timers[i]->spinOnce())
\* count++; entered at timer i with `count` fires so far
NodeSpinLoop(n, t, i, count, log) ==
    IF i > Len(n.timers) THEN [node |-> n, ret |-> count, polled |-> log]
    ELSE LET r == Timer_spinOnce(n.timers[i], t) IN
         NodeSpinLoop([n EXCEPT !.timers[i] = r.timer], t, i + 1,
                      IF r.ret THEN count + 1 ELSE count,
                      Append(log, [timer |-> i, fired |-> r.ret]))

\* (mutant of Node_spinOnce) also calls spinOnce on the first subscription
Node_spinOnce_SpinsSubscription(n, q, t) ==
    LET tm == NodeSpinLoop(n, t, 1, 0, <<>>) IN
    IF n.subscriptions = <<>>
    THEN [node |-> tm.node, rxq |-> q, ret |-> tm.ret, polled |-> tm.polled]
    ELSE LET r == Subscription_spinOnce(n.subscriptions[1].obj, q, t, NoMsg) IN
         [node |-> [tm.node EXCEPT !.subscriptions[1].obj = r.sub],
          rxq |-> r.rxq, ret |-> tm.ret, polled |-> tm.polled]

\* Node::spinOnce with t the value micros() returns and q the datagrams
\* pending for the first subscription: the loop over the subscriptions has
\* an empty body
Node_spinOnce(n, q, t) ==
    LET tm == NodeSpinLoop(n, t, 1, 0, <<>>) IN
    [node |-> tm.node, rxq |-> q, ret |-> tm.ret, polled |-> tm.polled]

(***************************************************************************)
(* UDPComm<TReceive, TSend>: the Wi-Fi link, the socket and the status.     *)
(***************************************************************************)
\* Config(): the members that decide how a connection attempt goes
DefaultConnectionTimeout == 30000
Config == [autoReconnect |-> TRUE, connectionTimeout |-> DefaultConnectionTimeout]

\* Stats(): the counters send() writes
Stats == [packetsSent |-> 0, sendErrors |-> 0, lastSendTime |-> 0]

\* UDPComm(): _status starts DISCONNECTED
UDPComm == [status |-> "DISCONNECTED", config |-> Config, stats |-> Stats]

\* the link never comes up during a connection attempt
LinkNever == -1

\* delay(100) between two reads of WiFi.status()
PollMs == 100

\* the while loop of _connectWiFi, which reads WiFi.status() and then
\* millis() - startTime once per delay(100): poll k runs k * PollMs after
\* the start. TRUE when a poll sees WL_CONNECTED before any poll saw the
\* timeout exceeded, FALSE otherwise; upAfter is when the link comes up
FirstPollUp(upAfter) == (upAfter + PollMs - 1) \div PollMs
FirstPollTimedOut(timeout) == timeout \div PollMs + 1
WiFiWait(upAfter, timeout) ==
    /\ upAfter # LinkNever
    /\ FirstPollUp(upAfter) <= FirstPollTimedOut(timeout)

\* UDPComm::_connectWiFi
UDPComm_connectWiFi(c, upAfter) ==
    LET c1 == [c EXCEPT !.status = "CONNECTING"] IN
    IF WiFiWait(upAfter, c1.config.connectionTimeout)
    THEN [comm |-> [c1 EXCEPT !.status = "CONNECTED"], ok |-> TRUE,
          wifi |-> TRUE]
    ELSE [comm |-> [c1 EXCEPT !.status = "DISCONNECTED"], ok |-> FALSE,
          wifi |-> FALSE]

\* UDPComm::_setupUDP, bound the result of _udp.begin(localPort)
UDPComm_setupUDP(c, bound) == [comm |-> c, ok |-> bound]

\* the body both begin overloads share: _connectWiFi() && _setupUDP()
UDPComm_connect(c, upAfter, bound) ==
    LET w == UDPComm_connectWiFi(c, upAfter) IN
    IF ~w.ok THEN w
    ELSE [comm |-> UDPComm_setupUDP(w.comm, bound).comm,
          ok |-> UDPComm_setupUDP(w.comm, bound).ok, wifi |-> w.wifi]

\* UDPComm::begin(ssid, password, serverIP, serverPort, localPort): the
\* members of _config it assigns take no part in what follows
UDPComm_begin(c, upAfter, bound) == UDPComm_connect(c, upAfter, bound)

\* UDPComm::begin(const Config&)
UDPComm_beginConfig(c, config, upAfter, bound) ==
    UDPComm_connect([c EXCEPT !.config = config], upAfter, bound)

\* UDPComm::send, t the value micros() returns and sent the result of
\* _udp.endPacket()
UDPComm_send(c, t, sent) ==
    IF c.status # "CONNECTED"
    THEN [comm |-> [c EXCEPT !.stats.sendErrors = @ + 1], ret |-> FALSE]
    ELSE IF sent
    THEN [comm |-> [c EXCEPT !.stats.packetsSent = @ + 1,
                             !.stats.lastSendTime = t], ret |-> TRUE]
    ELSE [comm |-> [c EXCEPT !.stats.sendErrors = @ + 1], ret |-> FALSE]

\* UDPComm::update, connected the value of isConnected()
UDPComm_update(c, connected, upAfter) ==
    IF c.config.autoReconnect /\ ~connected
    THEN LET w == UDPComm_connectWiFi(
                      [c EXCEPT !.status = "CONNECTION_LOST"], upAfter) IN
         [comm |-> w.comm, wifi |-> w.wifi]
    ELSE [comm |-> c, wifi |-> connected]

\* UDPComm::end
UDPComm_end(c) == [c EXCEPT !.status = "DISCONNECTED"]

(***************************************************************************)
(* The state after construction.                                            *)
(***************************************************************************)
NoArg == <<>>

\* the names, ports, payload sizes a topic is registered with
Names == {"/a", "/b", "/c"}
Ports == {7001, 7002}
MsgSizes == {2, 4}

\* the messages a caller publishes
PubMsgs == {258, 1027}

\* the local ports a Publisher is constructed with (0: no local bind)
LocalPorts == {0, 5000}

EnvInit == now = 0 /\ op = "new" /\ arg = NoArg /\ ret = FALSE

SubInit0(callback, depth) ==
    /\ sub = Subscription(callback, depth)
    /\ rxq = <<>>
    /\ arrived = 0
    /\ out = NoMsg
    /\ calls = <<>>
    /\ lastSize = 0
    /\ delivered = <<>>

PubInit0(localPort, broadcast) ==
    /\ pub = Publisher(localPort, broadcast)
    /\ wire = <<>>
    /\ tx = <<>>
    /\ pubInitOk = FALSE

RegInit0 ==
    /\ topics = <<>>
    /\ firstPort = [n \in Names |-> 0]

\* the last fire: whether there was one, its clock value, and the clock time
\* since the fire before it
Never == [set |-> FALSE, at |-> 0, gap |-> 0]

\* the last cancel() and resume(): the clock value of the cancel, whether a
\* resume() was called, its clock value, how long the timer had been
\* cancelled, whether the timer has fired since and how long after the resume
NotResumed ==
    [cancelAt |-> 0, set |-> FALSE, at |-> 0, idle |-> 0, fired |-> FALSE,
     wait |-> 0]

TimerInit0(periodUs, callback) ==
    /\ timer = Timer(periodUs, callback)
    /\ tmCalls = 0
    /\ lastFireAt = Never
    /\ resumedAt = NotResumed

RateInit0(periodUs) ==
    /\ rate = Rate(periodUs, now)
    /\ blocked = 0
    /\ elapsedSeen = 0
    /\ sleeps = 0

NodeInit0 ==
    /\ node = Node
    /\ live = 0
    /\ creates = 0
    /\ born = <<>>
    /\ polled = <<>>

CommInit0 ==
    /\ comm = UDPComm
    /\ wifi = FALSE
    /\ beginFailed = FALSE

\* the Timer, Rate, Node and UDPComm of a behaviour that never touches them
IdleInit0 == TimerInit0(1, TRUE) /\ RateInit0(1000) /\ NodeInit0 /\ CommInit0

(***************************************************************************)
(* The environment's steps.                                                  *)
(***************************************************************************)
\* time passes
Tick ==
    /\ now < MaxClock
    /\ now' = now + 1
    /\ op' = "tick" /\ arg' = NoArg /\ ret' = FALSE
    /\ UNCHANGED <<subVars, pubVars, regVars, timerVars, rateVars, nodeVars, commVars>>

\* a datagram reaches the subscription's bound socket
Arrive ==
    /\ sub.initialized
    /\ arrived < MaxArrivals
    /\ \E len \in DatagramLens :
          /\ rxq' = Append(rxq, Datagram(arrived + 1, len))
          /\ arg' = len
    /\ arrived' = arrived + 1
    /\ op' = "arrive" /\ ret' = FALSE
    /\ UNCHANGED <<now, sub, out, calls, lastSize, delivered, pubVars, regVars, timerVars, rateVars, nodeVars, commVars>>

(***************************************************************************)
(* The calls on a Subscription.                                              *)
(***************************************************************************)
\* sub->init(): _udp.begin() opens the socket anew, nothing is pending on it
SubInit ==
    /\ \E bound \in BOOLEAN :
          /\ sub' = Subscription_init(sub, bound)
          /\ ret' = bound
    /\ rxq' = <<>>
    /\ op' = "sub.init" /\ arg' = NoArg
    /\ UNCHANGED <<now, arrived, out, calls, lastSize, delivered, pubVars, regVars, timerVars, rateVars, nodeVars, commVars>>

\* What the transport can answer to initMulticast: beginMulticast() binds
\* and joins in one step (joined); when it fails, begin() binds (bound) and,
\* when that succeeded, igmp_joingroup() asks for the membership (igmp).
InitMulticastOutcomes ==
    {o \in [joined : BOOLEAN, bound : BOOLEAN, igmp : BOOLEAN] :
        /\ o.joined => ~o.bound /\ ~o.igmp
        /\ ~o.bound => ~o.igmp}

\* sub->initMulticast(group); the code does not look at what igmp_joingroup()
\* returned
SubInitMulticast ==
    /\ \E o \in InitMulticastOutcomes :
          /\ sub' = Subscription_initMulticast(sub, o.joined, o.bound)
          /\ arg' = o
    /\ ret' = sub'.initialized
    /\ rxq' = <<>>
    /\ op' = "sub.initMulticast"
    /\ UNCHANGED <<now, arrived, out, calls, lastSize, delivered, pubVars, regVars, timerVars, rateVars, nodeVars, commVars>>

\* sub->take(out)
Take ==
    LET r == Subscription_take(sub, rxq, now, out) IN
    /\ sub' = r.sub /\ rxq' = r.rxq /\ out' = r.out
    /\ calls' = r.calls /\ lastSize' = r.size
    /\ delivered' = IF r.ret THEN Append(delivered, r.out) ELSE delivered
    /\ op' = "take" /\ arg' = NoArg /\ ret' = r.ret
    /\ UNCHANGED <<now, arrived, pubVars, regVars, timerVars, rateVars, nodeVars, commVars>>

\* sub->spinOnce()
SpinOnce ==
    LET r == Subscription_spinOnce(sub, rxq, now, out) IN
    /\ sub' = r.sub /\ rxq' = r.rxq /\ out' = r.out
    /\ calls' = r.calls /\ lastSize' = r.size
    /\ delivered' = delivered \o r.calls
    /\ op' = "spinOnce" /\ arg' = NoArg /\ ret' = r.ret
    /\ UNCHANGED <<now, arrived, pubVars, regVars, timerVars, rateVars, nodeVars, commVars>>

\* sub->spinAll()
SpinAll ==
    LET r == Subscription_spinAll(sub, rxq, now, out) IN
    /\ sub' = r.sub /\ rxq' = r.rxq /\ out' = r.out
    /\ calls' = r.calls /\ lastSize' = r.size
    /\ delivered' = delivered \o r.calls
    /\ op' = "spinAll" /\ arg' = NoArg /\ ret' = r.ret
    /\ UNCHANGED <<now, arrived, pubVars, regVars, timerVars, rateVars, nodeVars, commVars>>

(***************************************************************************)
(* The calls on a Publisher.                                                 *)
(***************************************************************************)
\* pub->init()
PubInit ==
    /\ \E bound \in BOOLEAN : pub' = Publisher_init(pub, bound)
    /\ ret' = pub'.initialized
    /\ pubInitOk' = (pubInitOk \/ ret')
    /\ tx' = <<>>
    /\ op' = "pub.init" /\ arg' = NoArg
    /\ UNCHANGED <<now, wire, subVars, regVars, timerVars, rateVars, nodeVars, commVars>>

\* pub->publish(msg)
Publish ==
    /\ Len(wire) < MaxPublishes
    /\ \E msg \in PubMsgs, accepted \in BOOLEAN :
          LET r == Publisher_publish(pub, msg, now, accepted) IN
          /\ pub' = r.pub
          /\ wire' = IF accepted THEN wire \o r.tx ELSE wire
          /\ tx' = r.tx
          /\ arg' = [msg |-> msg, accepted |-> accepted]
          /\ ret' = r.ret
    /\ op' = "publish"
    /\ UNCHANGED <<now, pubInitOk, subVars, regVars, timerVars, rateVars, nodeVars, commVars>>

\* the byte strings a caller hands to publishRaw
RawPayloads == {<<9>>, <<7, 8>>}

\* pub->publishRaw(data, len)
PublishRaw ==
    /\ Len(wire) < MaxPublishes
    /\ \E data \in RawPayloads, accepted \in BOOLEAN :
          LET r == Publisher_publishRaw(pub, data, accepted) IN
          /\ pub' = r.pub
          /\ wire' = IF accepted THEN wire \o r.tx ELSE wire
          /\ tx' = r.tx
          /\ arg' = [data |-> data, accepted |-> accepted]
          /\ ret' = r.ret
    /\ op' = "publishRaw"
    /\ UNCHANGED <<now, pubInitOk, subVars, regVars, timerVars, rateVars, nodeVars, commVars>>

\* The loopback transport hands the next datagram it accepted from the
\* publisher to the subscription's port: it is queued on the socket when
\* the subscription is bound, and lost otherwise.
Deliver ==
    /\ arrived < Len(wire)
    /\ rxq' = IF sub.initialized THEN Append(rxq, wire[arrived + 1]) ELSE rxq
    /\ arrived' = arrived + 1
    /\ op' = "deliver" /\ arg' = NoArg /\ ret' = sub.initialized
    /\ UNCHANGED <<now, sub, out, calls, lastSize, delivered, pubVars, regVars, timerVars, rateVars, nodeVars, commVars>>

(***************************************************************************)
(* The calls on the TopicRegistry.                                           *)
(***************************************************************************)
\* TopicRegistry::instance().registerTopic(name, port, msgSize, isPublisher)
RegisterTopic ==
    /\ \E name \in Names, port \in Ports, msgSize \in MsgSizes,
          isPublisher \in BOOLEAN :
          LET r == TopicRegistry_registerTopic(topics, name, port, msgSize,
                                               isPublisher) IN
          /\ topics' = r.topics
          /\ ret' = r.ret
          /\ arg' = [name |-> name, port |-> port, msgSize |-> msgSize,
                     isPublisher |-> isPublisher]
          /\ firstPort' = IF firstPort[name] = 0
                          THEN [firstPort EXCEPT ![name] = port]
                          ELSE firstPort
    /\ op' = "registerTopic"
    /\ UNCHANGED <<now, subVars, pubVars, timerVars, rateVars, nodeVars, commVars>>

\* Publisher<T>::Publisher: the constructor registers the topic and ignores
\* the result; ret shows what registerTopic returned
NewPublisher ==
    /\ \E name \in Names, remotePort \in Ports :
          LET r == TopicRegistry_registerTopic(topics, name, remotePort,
                                               SizeofT, TRUE) IN
          /\ pub' = Publisher(0, FALSE)
          /\ topics' = r.topics
          /\ ret' = r.ret
          /\ arg' = [name |-> name, port |-> remotePort, msgSize |-> SizeofT,
                     isPublisher |-> TRUE]
          /\ firstPort' = IF firstPort[name] = 0
                          THEN [firstPort EXCEPT ![name] = remotePort]
                          ELSE firstPort
    /\ wire' = <<>>
    /\ tx' = <<>>
    /\ pubInitOk' = FALSE
    /\ op' = "Publisher"
    /\ UNCHANGED <<now, subVars, timerVars, rateVars, nodeVars, commVars>>

\* Subscription<T>::Subscription: likewise, under the local port
NewSubscription ==
    /\ \E name \in Names, localPort \in Ports :
          LET r == TopicRegistry_registerTopic(topics, name, localPort,
                                               SizeofT, FALSE) IN
          /\ sub' = Subscription(TRUE, 1)
          /\ topics' = r.topics
          /\ ret' = r.ret
          /\ arg' = [name |-> name, port |-> localPort, msgSize |-> SizeofT,
                     isPublisher |-> FALSE]
          /\ firstPort' = IF firstPort[name] = 0
                          THEN [firstPort EXCEPT ![name] = localPort]
                          ELSE firstPort
    /\ rxq' = <<>>
    /\ arrived' = 0
    /\ out' = NoMsg
    /\ calls' = <<>>
    /\ lastSize' = 0
    /\ delivered' = <<>>
    /\ op' = "Subscription"
    /\ UNCHANGED <<now, pubVars, timerVars, rateVars, nodeVars, commVars>>

\* a topic name as autoPort reads it: its characters' codes, in order
HashChars == {47, 112, 120}
HashNames == UNION {[1..n -> HashChars] : n \in 0..MaxNameLen}

\* TopicRegistry::autoPort with the default base port, on the name in arg
AutoPort ==
    /\ ret' = TopicRegistry_autoPort(arg, DefaultBasePort)
    /\ op' = "autoPort"
    /\ UNCHANGED <<now, arg, subVars, pubVars, regVars, timerVars, rateVars,
                   nodeVars, commVars>>

\* micros() grows between two calls on the Timer
TimerTick ==
    /\ now < MaxTimerClock
    /\ now' = now + 1
    /\ op' = "tick" /\ arg' = NoArg /\ ret' = FALSE
    /\ UNCHANGED <<subVars, pubVars, regVars, timerVars, rateVars, nodeVars, commVars>>

\* Timer::spinOnce
TimerSpinOnce ==
    /\ timer.callCount < MaxFires
    /\ LET r == Timer_spinOnce(timer, now) IN
          /\ timer' = r.timer
          /\ ret' = r.ret
          /\ tmCalls' = r.calls
          /\ lastFireAt' =
                IF r.ret
                THEN [set |-> TRUE, at |-> now,
                      gap |-> IF lastFireAt.set THEN now - lastFireAt.at
                              ELSE 0]
                ELSE lastFireAt
          /\ resumedAt' =
                IF r.ret /\ resumedAt.set /\ ~resumedAt.fired
                THEN [resumedAt EXCEPT !.fired = TRUE,
                                       !.wait = now - resumedAt.at]
                ELSE resumedAt
    /\ op' = "timer.spinOnce" /\ arg' = NoArg
    /\ UNCHANGED <<now, subVars, pubVars, regVars, rateVars, nodeVars, commVars>>

\* Timer::reset
TimerReset ==
    /\ timer' = Timer_reset(timer, now)
    /\ op' = "timer.reset" /\ arg' = NoArg /\ ret' = FALSE
    /\ UNCHANGED <<now, tmCalls, lastFireAt, resumedAt, subVars, pubVars,
                   regVars, rateVars, nodeVars, commVars>>

\* Timer::cancel
TimerCancel ==
    /\ timer' = Timer_cancel(timer)
    /\ resumedAt' = IF timer.active
                    THEN [NotResumed EXCEPT !.cancelAt = now]
                    ELSE resumedAt
    /\ op' = "timer.cancel" /\ arg' = NoArg /\ ret' = FALSE
    /\ UNCHANGED <<now, tmCalls, lastFireAt, subVars, pubVars, regVars,
                   rateVars, nodeVars, commVars>>

\* Timer::resume
TimerResume ==
    /\ timer' = Timer_resume(timer, now)
    /\ resumedAt' = [resumedAt EXCEPT
                        !.set = TRUE, !.at = now,
                        !.idle = IF timer.active THEN 0
                                 ELSE now - resumedAt.cancelAt,
                        !.fired = FALSE, !.wait = 0]
    /\ op' = "timer.resume" /\ arg' = NoArg /\ ret' = FALSE
    /\ UNCHANGED <<now, tmCalls, lastFireAt, subVars, pubVars, regVars,
                   rateVars, nodeVars, commVars>>

\* the loop body between two sleep() calls takes d microseconds
WorkDurations == {0, 100, 1500, 4000}

RateWork ==
    /\ op # "work"
    /\ sleeps < MaxSleeps
    /\ \E d \in WorkDurations :
          /\ now' = now + d
          /\ arg' = d
    /\ op' = "work" /\ ret' = FALSE
    /\ UNCHANGED <<subVars, pubVars, regVars, timerVars, rateVars, nodeVars, commVars>>

\* Rate::sleep: the caller is blocked while the clock advances by the wait
RateSleep ==
    /\ sleeps < MaxSleeps
    /\ LET r == Rate_sleep(rate, now) IN
          /\ rate' = r.rate
          /\ blocked' = r.blocked
          /\ elapsedSeen' = r.elapsed
          /\ now' = now + r.blocked
    /\ sleeps' = sleeps + 1
    /\ op' = "rate.sleep" /\ arg' = NoArg /\ ret' = FALSE
    /\ UNCHANGED <<subVars, pubVars, regVars, timerVars, nodeVars, commVars>>

\* QoSProfile::defaultProfile().depth
DefaultDepth == 10

\* the topics a Node's publishers and subscriptions are created on, each
\* with its port
NodeTopics == {"/a", "/b"}
NodePort(topic) == IF topic = "/a" THEN 7001 ELSE 7002

\* The state after a create call with result r; registered says that the
\* call constructed an object, whose constructor registered topic with port.
NodeApply(r, registered, topic, port) ==
    /\ node' = r.node
    /\ topics' = r.topics
    /\ live' = r.live
    /\ ret' = r.ret
    /\ firstPort' = IF registered /\ firstPort[topic] = 0
                    THEN [firstPort EXCEPT ![topic] = port]
                    ELSE firstPort
    /\ creates' = creates + 1
    /\ born' = IF Len(r.node.timers) > Len(node.timers)
               THEN Append(born, now)
               ELSE born
    /\ polled' = polled
    /\ UNCHANGED <<now, subVars, pubVars, timerVars, rateVars, commVars>>

CreatePublisher ==
    /\ creates < MaxCreates
    /\ \E topic \in NodeTopics :
          /\ NodeApply(Node_createPublisher(node, topics, live, topic,
                                            "192.168.1.10", NodePort(topic)),
                       Len(node.publishers) < MAX_PUBLISHERS,
                       topic, NodePort(topic))
          /\ arg' = topic
    /\ op' = "createPublisher"

CreateBroadcastPublisher ==
    /\ creates < MaxCreates
    /\ \E topic \in NodeTopics :
          /\ NodeApply(Node_createBroadcastPublisher(node, topics, live, topic,
                                                     NodePort(topic)),
                       Len(node.publishers) < MAX_PUBLISHERS,
                       topic, NodePort(topic))
          /\ arg' = topic
    /\ op' = "createBroadcastPublisher"

CreateMulticastPublisher ==
    /\ creates < MaxCreates
    /\ \E topic \in NodeTopics :
          /\ NodeApply(Node_createMulticastPublisher(node, topics, live, topic,
                                                     NodePort(topic),
                                                     "239.255.0.1"),
                       Len(node.publishers) < MAX_PUBLISHERS,
                       topic, NodePort(topic))
          /\ arg' = topic
    /\ op' = "createMulticastPublisher"

CreateSubscription ==
    /\ creates < MaxCreates
    /\ \E topic \in NodeTopics, bound \in BOOLEAN :
          /\ NodeApply(Node_createSubscription(node, topics, live, topic, TRUE,
                                               NodePort(topic), DefaultDepth,
                                               bound),
                       Len(node.subscriptions) < MAX_SUBSCRIPTIONS,
                       topic, NodePort(topic))
          /\ arg' = [topic |-> topic, bound |-> bound]
    /\ op' = "createSubscription"

CreateSubscriptionPolling ==
    /\ creates < MaxCreates
    /\ \E topic \in NodeTopics, bound \in BOOLEAN :
          /\ NodeApply(Node_createSubscriptionPolling(node, topics, live,
                                                      topic, NodePort(topic),
                                                      DefaultDepth, bound),
                       Len(node.subscriptions) < MAX_SUBSCRIPTIONS,
                       topic, NodePort(topic))
          /\ arg' = [topic |-> topic, bound |-> bound]
    /\ op' = "createSubscription(polling)"

CreateMulticastSubscription ==
    /\ creates < MaxCreates
    /\ \E topic \in NodeTopics, joined \in BOOLEAN, bound \in BOOLEAN :
          /\ NodeApply(Node_createMulticastSubscription(
                           node, topics, live, topic, TRUE, NodePort(topic),
                           DefaultDepth, joined, bound),
                       Len(node.subscriptions) < MAX_SUBSCRIPTIONS,
                       topic, NodePort(topic))
          /\ arg' = [topic |-> topic, joined |-> joined, bound |-> bound]
    /\ op' = "createMulticastSubscription"

CreateTimer ==
    /\ creates < MaxCreates
    /\ \E periodUs \in {1, 2}, callback \in BOOLEAN :
          /\ NodeApply(Node_createTimer(node, topics, live, periodUs,
                                        callback),
                       FALSE, "/a", 0)
          /\ arg' = periodUs
    /\ op' = "createTimer"

\* node.spinOnce()
NodeSpinOnce ==
    /\ LET r == Node_spinOnce(node, rxq, now) IN
          /\ node' = r.node
          /\ rxq' = r.rxq
          /\ ret' = r.ret
          /\ polled' = r.polled
    /\ op' = "node.spinOnce" /\ arg' = NoArg
    /\ UNCHANGED <<now, sub, arrived, out, calls, lastSize, delivered, pubVars,
                   regVars, timerVars, rateVars, live, creates, born,
                   commVars>>

(***************************************************************************)
(* Specifications: one per component, over the same variables.              *)
(***************************************************************************)
Depths == 0..MaxDepth

\* one Subscription, its socket and the clock
InitSub ==
    /\ EnvInit
    /\ \E callback \in BOOLEAN, depth \in Depths : SubInit0(callback, depth)
    /\ PubInit0(0, FALSE)
    /\ RegInit0
    /\ IdleInit0

NextSub ==
    Tick \/ Arrive \/ SubInit \/ SubInitMulticast \/ Take \/ SpinOnce \/ SpinAll

SpecSub == InitSub /\ [][NextSub]_vars

\* one Publisher, its socket and the clock
InitPub ==
    /\ EnvInit
    /\ SubInit0(TRUE, 1)
    /\ \E localPort \in LocalPorts, broadcast \in BOOLEAN :
          PubInit0(localPort, broadcast)
    /\ RegInit0
    /\ IdleInit0

NextPub == Tick \/ PubInit \/ Publish \/ PublishRaw

SpecPub == InitPub /\ [][NextPub]_vars

\* the TopicRegistry
InitReg ==
    /\ EnvInit
    /\ SubInit0(TRUE, 1)
    /\ PubInit0(0, FALSE)
    /\ RegInit0
    /\ IdleInit0

NextReg == RegisterTopic

SpecReg == InitReg /\ [][NextReg]_vars

\* names of the topics of other components, registered earlier
FillTopics ==
    <<"/t01", "/t02", "/t03", "/t04", "/t05", "/t06",
      "/t07", "/t08", "/t09", "/t10", "/t11", "/t12",
      "/t13", "/t14", "/t15", "/t16", "/t17", "/t18",
      "/t19", "/t20", "/t21", "/t22", "/t23", "/t24",
      "/t25", "/t26", "/t27", "/t28", "/t29", "/t30">>

\* the table after the first k of them were registered
RECURSIVE Prefilled(_)
Prefilled(k) ==
    IF k = 0 THEN <<>>
    ELSE TopicRegistry_registerTopic(Prefilled(k - 1), FillTopics[k],
                                     7100 + k, SizeofT, TRUE).topics

\* the largest prior table that still lets every name of Names be refused
PrefillCount == MAX_TOPICS - Cardinality(Names) + 1

\* the TopicRegistry near its capacity, with the constructors that use it
InitRegCap ==
    /\ EnvInit
    /\ SubInit0(TRUE, 1)
    /\ PubInit0(0, FALSE)
    /\ topics = Prefilled(PrefillCount)
    /\ firstPort = [n \in Names |-> 0]
    /\ IdleInit0

NextRegCap == RegisterTopic \/ NewPublisher \/ NewSubscription

SpecRegCap == InitRegCap /\ [][NextRegCap]_vars

\* autoPort, a function of the name alone: the name is drawn at the start
InitHash ==
    /\ now = 0 /\ op = "new" /\ ret = FALSE
    /\ arg \in HashNames
    /\ SubInit0(TRUE, 1)
    /\ PubInit0(0, FALSE)
    /\ RegInit0
    /\ IdleInit0

NextHash == AutoPort

SpecHash == InitHash /\ [][NextHash]_vars

\* the periods a Timer is constructed with, in clock units
Periods == 0..MaxPeriod

\* one Timer and the clock it reads
InitTimer ==
    /\ EnvInit
    /\ SubInit0(TRUE, 1)
    /\ PubInit0(0, FALSE)
    /\ RegInit0
    /\ \E periodUs \in Periods, callback \in BOOLEAN :
          TimerInit0(periodUs, callback)
    /\ RateInit0(1000)
    /\ NodeInit0
    /\ CommInit0

NextTimer ==
    TimerTick \/ TimerSpinOnce \/ TimerReset \/ TimerCancel \/ TimerResume

SpecTimer == InitTimer /\ [][NextTimer]_vars

\* the periods a Rate is constructed with, in microseconds
RatePeriods == {0, 500, 2500, 3000}

\* one Rate and the clock it reads
InitRate ==
    /\ EnvInit
    /\ SubInit0(TRUE, 1)
    /\ PubInit0(0, FALSE)
    /\ RegInit0
    /\ TimerInit0(1, TRUE)
    /\ \E periodUs \in RatePeriods : RateInit0(periodUs)
    /\ NodeInit0
    /\ CommInit0

NextRate == RateWork \/ RateSleep

SpecRate == InitRate /\ [][NextRate]_vars

\* A Node after k rounds of createPublisher, createSubscription and
\* createTimer, with the registry they wrote to
RECURSIVE NodeAfter(_)
NodeAfter(k) ==
    IF k = 0 THEN [node |-> Node, topics |-> <<>>, live |-> 0]
    ELSE LET s == NodeAfter(k - 1)
             a == Node_createPublisher(s.node, s.topics, s.live, "/a",
                                       "192.168.1.10", NodePort("/a"))
             b == Node_createSubscription(a.node, a.topics, a.live, "/a", TRUE,
                                          NodePort("/a"), DefaultDepth, TRUE)
             c == Node_createTimer(b.node, b.topics, b.live, 1, TRUE) IN
         [node |-> c.node, topics |-> c.topics, live |-> c.live]

\* one round short of the Node's capacities
NodePrefill == MAX_PUBLISHERS - 1

\* one Node, new or nearly full, and the TopicRegistry
InitNode ==
    /\ EnvInit
    /\ SubInit0(TRUE, 1)
    /\ PubInit0(0, FALSE)
    /\ TimerInit0(1, TRUE)
    /\ RateInit0(1000)
    /\ CommInit0
    /\ \E k \in {0, NodePrefill} :
          /\ node = NodeAfter(k).node
          /\ topics = NodeAfter(k).topics
          /\ live = NodeAfter(k).live
          /\ firstPort = [n \in Names |->
                            IF k > 0 /\ n = "/a" THEN NodePort("/a") ELSE 0]
          /\ born = [i \in 1..Len(NodeAfter(k).node.timers) |-> 0]
    /\ creates = 0
    /\ polled = <<>>

NextNode ==
    \/ CreatePublisher \/ CreateBroadcastPublisher \/ CreateMulticastPublisher
    \/ CreateSubscription \/ CreateSubscriptionPolling
    \/ CreateMulticastSubscription \/ CreateTimer

SpecNode == InitNode /\ [][NextNode]_vars

\* a Publisher and a Subscription on the same port of a loopback transport
InitLoop ==
    /\ EnvInit
    /\ SubInit0(FALSE, 1)
    /\ \E broadcast \in BOOLEAN : PubInit0(0, broadcast)
    /\ RegInit0
    /\ IdleInit0

NextLoop == PubInit \/ SubInit \/ Publish \/ Deliver \/ Take

SpecLoop == InitLoop /\ [][NextLoop]_vars

\* one Node, new or nearly full, its timers and the clock; the first
\* subscription of the nearly full one, bound at creation, has two datagrams
\* pending
InitNodeSpin ==
    /\ EnvInit
    /\ PubInit0(0, FALSE)
    /\ TimerInit0(1, TRUE)
    /\ RateInit0(1000)
    /\ CommInit0
    /\ sub = Subscription(TRUE, 1)
    /\ out = NoMsg /\ calls = <<>> /\ lastSize = 0 /\ delivered = <<>>
    /\ \E k \in {0, NodePrefill} :
          /\ node = NodeAfter(k).node
          /\ topics = NodeAfter(k).topics
          /\ live = NodeAfter(k).live
          /\ firstPort = [n \in Names |->
                            IF k > 0 /\ n = "/a" THEN NodePort("/a") ELSE 0]
          /\ born = [i \in 1..Len(NodeAfter(k).node.timers) |-> 0]
          /\ rxq = IF k > 0
                   THEN <<Datagram(1, SizeofT), Datagram(2, 1)>>
                   ELSE <<>>
          /\ arrived = IF k > 0 THEN 2 ELSE 0
    /\ creates = 0
    /\ polled = <<>>

NextNodeSpin == TimerTick \/ CreateTimer \/ NodeSpinOnce

SpecNodeSpin == InitNodeSpin /\ [][NextNodeSpin]_vars

(***************************************************************************)
(* The claims.                                                               *)
(***************************************************************************)
\* datagram d has exactly the receiver's size
ValidLen(d) == Len(d) = SizeofT

Min(a, b) == IF a <= b THEN a ELSE b

\* the arrival number a delivered message carries in its first byte
SeqNo(msg) == msg % 256

\* C1: take on an initialised Subscription whose pending datagram is not
\* exactly sizeof(T) long (shorter or longer) discards that datagram, leaves
\* out and received unchanged, increments dropped by exactly 1 and returns
\* false.
C1_TakeDropsWrongLength ==
    [][ ( /\ op' = "take"
          /\ sub.initialized
          /\ rxq # <<>>
          /\ ~ValidLen(Head(rxq)) )
        => ( /\ rxq' = Tail(rxq)
             /\ out' = out
             /\ sub'.recvCount = sub.recvCount
             /\ sub'.dropCount = sub.dropCount + 1
             /\ ret' = FALSE ) ]_vars

\* C2: take on an initialised Subscription whose head datagram is exactly
\* sizeof(T) long removes exactly that datagram, sets out to the value those
\* bytes encode, increments received by exactly 1, leaves dropped unchanged,
\* sets the last-receive timestamp to the clock and returns true.
C2_TakeDecodesExactLength ==
    [][ ( /\ op' = "take"
          /\ sub.initialized
          /\ rxq # <<>>
          /\ ValidLen(Head(rxq)) )
        => ( /\ rxq' = Tail(rxq)
             /\ Encode(out') = Head(rxq)
             /\ sub'.recvCount = sub.recvCount + 1
             /\ sub'.dropCount = sub.dropCount
             /\ sub'.lastRecvTime = now
             /\ ret' = TRUE ) ]_vars

\* C2 witness: a take has just returned true on a datagram of exactly
\* sizeof(T) bytes, at a clock value other than the initial timestamp.
C2_Witness ==
    /\ op = "take" /\ ret = TRUE
    /\ lastSize = SizeofT
    /\ out # NoMsg
    /\ sub.lastRecvTime = now /\ now > 0

\* C3: take with nothing pending returns false and changes neither out, the
\* counters, the timestamp nor the queue; and any take removes at most one
\* datagram, the head, from the queue.
C3_TakeEmptyNoopAtMostOne ==
    [][ op' = "take"
        => ( /\ rxq = <<>> =>
                  ret' = FALSE /\ out' = out /\ sub' = sub /\ rxq' = rxq
             /\ \E k \in 0..1 :
                  k <= Len(rxq) /\ rxq' = SubSeq(rxq, k + 1, Len(rxq)) ) ]_vars

\* C3 witness: a take on an initialised Subscription has just found nothing
\* pending, after datagrams had been received and dropped before.
C3_Witness ==
    /\ op = "take" /\ ret = FALSE
    /\ sub.initialized /\ lastSize = 0 /\ rxq = <<>>
    /\ sub.recvCount > 0 /\ sub.dropCount > 0

\* C4: on a Subscription without a callback spinOnce is a no-op: it returns
\* false, consumes no datagram and leaves the counters and the timestamp
\* unchanged.
C4_SpinOnceNoCallbackNoop ==
    [][ (op' = "spinOnce" /\ ~sub.hasCallback)
        => (ret' = FALSE /\ rxq' = rxq /\ sub' = sub) ]_vars

\* C5: on a Subscription with a callback, spinOnce and take started from the
\* same state consume the same datagram, leave the same counters and
\* timestamp and return the same result; spinOnce invokes the callback once,
\* with the message take would have written to out, when it returns true and
\* not at all when it returns false.
C5_SpinOnceEquivTake ==
    sub.hasCallback =>
        LET a == Subscription_take(sub, rxq, now, out)
            b == Subscription_spinOnce(sub, rxq, now, out) IN
        /\ a.sub = b.sub
        /\ a.rxq = b.rxq
        /\ a.ret = b.ret
        /\ b.calls = IF b.ret THEN <<a.out>> ELSE <<>>

\* C5 witness: spinOnce on a Subscription with a callback has just returned
\* true and invoked the callback once.
C5_Witness ==
    /\ op = "spinOnce" /\ ret = TRUE
    /\ sub.hasCallback /\ Len(calls) = 1

\* C6: with depth d >= 1 and n pending datagrams, all of exactly sizeof(T)
\* bytes, on a Subscription with a callback, spinAll processes min(n, d)
\* messages, returns that number and leaves the other n - min(n, d) pending.
C6_SpinAllProcessesMinDepth ==
    [][ ( /\ op' = "spinAll"
          /\ sub.initialized /\ sub.hasCallback
          /\ sub.depth >= 1
          /\ \A i \in 1..Len(rxq) : ValidLen(rxq[i]) )
        => LET n == Len(rxq)
               k == Min(n, sub.depth) IN
           /\ ret' = k
           /\ Len(calls') = k
           /\ sub'.recvCount = sub.recvCount + k
           /\ sub'.dropCount = sub.dropCount
           /\ rxq' = SubSeq(rxq, k + 1, n) ]_vars

\* C6 witness: a spinAll has just processed exactly depth messages of exact
\* size and has left two exact-size datagrams pending (n = d + 2).
C6_Witness ==
    /\ op = "spinAll"
    /\ sub.hasCallback /\ sub.depth >= 1
    /\ ret = sub.depth /\ Len(calls) = sub.depth
    /\ lastSize = SizeofT
    /\ Len(rxq) = 2 /\ \A i \in 1..Len(rxq) : ValidLen(rxq[i])

\* C7: messages are handed to the application (callback invocations, take
\* results) in arrival order: each one arrived after every one handed over
\* before it, none is handed over twice, and whatever is still pending
\* arrived after everything handed over.
C7_DeliveredInArrivalOrder ==
    /\ \A i, j \in 1..Len(delivered) :
          i < j => SeqNo(delivered[i]) < SeqNo(delivered[j])
    /\ \A i \in 1..Len(delivered), j \in 1..Len(rxq) :
          SeqNo(delivered[i]) < rxq[j][1]

\* C7 witness: one spinAll call has just invoked the callback twice, after an
\* earlier delivery.
C7_Witness ==
    /\ op = "spinAll" /\ Len(calls) >= 2
    /\ Len(delivered) > Len(calls)

\* C8: publish on a Publisher whose init() has not yet returned true returns
\* false, hands nothing to the transport and leaves the sent counter and the
\* last-send timestamp unchanged.
C8_PublishBeforeInitFails ==
    [][ (op' = "publish" /\ ~pubInitOk)
        => (ret' = FALSE /\ tx' = <<>> /\ wire' = wire /\ pub' = pub) ]_vars

\* C8 witness: publish has just failed, with a transport that would accept,
\* on a Publisher with a non-zero local port whose init() never returned true.
C8_Witness ==
    /\ op = "publish" /\ ret = FALSE
    /\ ~pubInitOk /\ pub.localPort > 0
    /\ arg.accepted

\* C9: publish on an initialised Publisher makes exactly one send attempt, of
\* exactly sizeof(T) bytes; accepted by the transport it returns true, sent
\* grows by exactly 1 and the last-send timestamp is the clock; rejected it
\* returns false and sent and the timestamp are unchanged.
C9_PublishOneAttempt ==
    [][ (op' = "publish" /\ pub.initialized)
        => ( /\ Len(tx') = 1
             /\ Len(tx'[1]) = SizeofT
             /\ Decode(tx'[1]) = arg'.msg
             /\ arg'.accepted =>
                  /\ ret' = TRUE
                  /\ pub'.pubCount = pub.pubCount + 1
                  /\ pub'.lastPubTime = now
                  /\ wire' = wire \o tx'
             /\ ~arg'.accepted =>
                  /\ ret' = FALSE
                  /\ pub' = pub
                  /\ wire' = wire ) ]_vars

\* C9 witness: the transport has just rejected a publish of an initialised
\* Publisher that had published before.
C9_Witness ==
    /\ op = "publish" /\ ret = FALSE
    /\ pub.initialized /\ ~arg.accepted
    /\ Len(tx) = 1
    /\ pub.pubCount > 0 /\ pub.lastPubTime < now

\* C10: within capacity, getPort(n) is the port of the first registerTopic
\* of n; a later registerTopic of n changes neither the table nor the entry
\* count; so two names first registered with different ports have different
\* getPort values.
C10_FirstRegistrationWins ==
    /\ [](\A n \in Names :
            firstPort[n] # 0 => TopicRegistry_getPort(topics, n) = firstPort[n])
    /\ [](\A n1, n2 \in Names :
            (firstPort[n1] # 0 /\ firstPort[n2] # 0
             /\ firstPort[n1] # firstPort[n2])
            => TopicRegistry_getPort(topics, n1)
                 # TopicRegistry_getPort(topics, n2))
    /\ [][ (op' = "registerTopic" /\ firstPort[arg'.name] # 0)
           => (topics' = topics /\ ret' = TRUE) ]_vars

\* C10 witness: a name has just been registered again with another port than
\* its first, while a second name with a different port is in the table.
C10_Witness ==
    /\ op = "registerTopic" /\ ret = TRUE
    /\ firstPort[arg.name] # 0 /\ firstPort[arg.name] # arg.port
    /\ \E n \in Names :
          n # arg.name /\ firstPort[n] # 0 /\ firstPort[n] # firstPort[arg.name]
    /\ Len(topics) = 2

\* C11: after any sequence of registerTopic calls and Publisher/Subscription
\* constructions, no two entries of the table have the same topic name.
C11_NoTwoEntriesShareName ==
    \A i, j \in 1..Len(topics) : i # j => topics[i].name # topics[j].name

\* C11 witness: a Subscription has just been constructed on a topic whose
\* entry was made by a Publisher, and the table still has one entry for it.
C11_Witness ==
    /\ op = "Subscription" /\ ret = TRUE
    /\ \E i \in 1..Len(topics) :
          topics[i].name = arg.name /\ topics[i].isPublisher
    /\ Len(topics) > PrefillCount

\* C12: registerTopic(name, ...) returns true and changes nothing whenever
\* name is already in the table, also when the table holds MAX_TOPICS entries.
C12_ReRegisterSucceedsInEveryState ==
    [][ (op' = "registerTopic" /\ Registered(topics, arg'.name))
        => (ret' = TRUE /\ topics' = topics) ]_vars

\* C13: the table never holds more than MAX_TOPICS entries; registerTopic of
\* a name not in a table of MAX_TOPICS entries returns false, leaves the table
\* as it was, and getPort of that name is still 0.
C13_CapacityRefusesNewName ==
    /\ [](Len(topics) <= MAX_TOPICS)
    /\ [][ (/\ op' = "registerTopic"
            /\ Len(topics) = MAX_TOPICS
            /\ ~Registered(topics, arg'.name))
           => (/\ ret' = FALSE
               /\ topics' = topics
               /\ TopicRegistry_getPort(topics', arg'.name) = 0) ]_vars

\* C13 witness: registerTopic of a new name has just been refused by a table
\* of MAX_TOPICS entries.
C13_Witness ==
    /\ op = "registerTopic" /\ ret = FALSE
    /\ Len(topics) = MAX_TOPICS
    /\ ~Registered(topics, arg.name)

\* 31^k mod 2^32
RECURSIVE Pow31(_)
Pow31(k) == IF k = 0 THEN [hi |-> 0, lo |-> 1] ELSE U32MulAdd(Pow31(k - 1), 31, 0)

\* the sum of name[j] * 31^(Len(name) - j) over j >= i, mod 2^32
RECURSIVE PolyHashFrom(_, _)
PolyHashFrom(name, i) ==
    IF i > Len(name) THEN U32Zero
    ELSE U32Add(U32MulAdd(Pow31(Len(name) - i), name[i], 0),
                PolyHashFrom(name, i + 1))

\* the base-31 polynomial hash of the name's characters, mod 2^32
PolyHash(name) == PolyHashFrom(name, 1)

\* C14 (as amended): autoPort(name) with the default base is
\* 7000 + (h mod 1000), h the base-31 polynomial hash of the name mod 2^32;
\* the port p satisfies 7000 <= p <= 7999; the same name gives the same port.
C14_AutoPortInClosedRange ==
    /\ [](op = "autoPort" =>
            /\ ret = 7000 + U32Mod(PolyHash(arg), 1000)
            /\ 7000 <= ret /\ ret <= 7999)
    /\ [][ (op = "autoPort" /\ op' = "autoPort" /\ arg' = arg)
           => ret' = ret ]_vars

\* C14 witness: autoPort of the name "/xp" has returned 7999.
C14_Witness ==
    op = "autoPort" /\ arg = <<47, 120, 112>> /\ ret = 7999

\* C14 (as stated): the same, with the port p in 7000 <= p < 7999.
C14_AutoPortBelow7999 ==
    op = "autoPort" =>
        /\ ret = 7000 + U32Mod(PolyHash(arg), 1000)
        /\ 7000 <= ret /\ ret < 7999

\* the test of Timer::spinOnce as the claims word it
TimerDue == timer.active /\ now - timer.lastFire >= timer.periodUs

\* C15: a spinOnce() call fires at most once and there is no catching up:
\* two consecutive fires are at least one period apart on the clock; a
\* spinOnce after one or more whole periods fires exactly once (fireCount
\* + 1), and a spinOnce less than a period after a fire does not fire.
C15_AtMostOneFireNoCatchUp ==
    [][ op' = "timer.spinOnce" =>
          /\ timer'.callCount <= timer.callCount + 1
          /\ tmCalls' <= 1
          /\ (ret' /\ lastFireAt.set)
                => now - lastFireAt.at >= timer.periodUs
          /\ (lastFireAt.set /\ now - lastFireAt.at < timer.periodUs)
                => (~ret' /\ timer'.callCount = timer.callCount)
          /\ TimerDue
                => (ret' /\ timer'.callCount = timer.callCount + 1) ]_vars

\* C15 witness: a timer that was never cancelled has just fired, once, two
\* or more whole periods after its previous fire.
C15_Witness ==
    /\ op = "timer.spinOnce" /\ ret = TRUE
    /\ timer.periodUs >= 1
    /\ timer.callCount >= 2
    /\ lastFireAt.gap >= 2 * timer.periodUs
    /\ timer.hasCallback /\ tmCalls = 1
    /\ resumedAt = NotResumed

\* C16: spinOnce() returns true exactly when the timer is active and
\* now - lastFire >= period; then lastFire becomes now, fireCount grows by
\* one and the callback (when there is one) is invoked once; otherwise it
\* returns false, leaves lastFire, fireCount and the active flag as they were
\* and does not invoke the callback.
C16_SpinOnceFiresIffDue ==
    [][ op' = "timer.spinOnce" =>
          /\ ret' = TimerDue
          /\ TimerDue =>
                /\ timer'.lastFire = now
                /\ timer'.callCount = timer.callCount + 1
                /\ timer'.active = timer.active
                /\ tmCalls' = IF timer.hasCallback THEN 1 ELSE 0
          /\ ~TimerDue => (timer' = timer /\ tmCalls' = 0) ]_vars

\* C16 witness: a cancelled timer whose period has elapsed was polled and
\* did not fire.
C16_Witness ==
    /\ op = "timer.spinOnce" /\ ret = FALSE
    /\ ~timer.active
    /\ timer.periodUs >= 1
    /\ now - timer.lastFire >= timer.periodUs
    /\ tmCalls = 0

\* C17 (as amended): after cancel() and a later resume() the timer is active
\* and its first fire is no earlier than one full period after the resume(),
\* however long it was cancelled; when the period is positive a spinOnce at
\* the clock value of the resume() does not fire.
C17_ResumeWaitsFullPeriod ==
    [][ /\ op' = "timer.resume"
            => (timer'.active /\ timer'.lastFire = now)
        /\ (op' = "timer.spinOnce" /\ ret'
             /\ resumedAt.set /\ ~resumedAt.fired)
            => now - resumedAt.at >= timer.periodUs
        /\ (op = "timer.resume" /\ op' = "timer.spinOnce"
             /\ timer.periodUs > 0)
            => ~ret' ]_vars

\* C17 witness: a timer that stayed cancelled for longer than its period
\* was resumed and has fired for the first time, a full period or more later.
C17_Witness ==
    /\ op = "timer.spinOnce" /\ ret = TRUE
    /\ timer.periodUs >= 1
    /\ resumedAt.set /\ resumedAt.fired
    /\ resumedAt.idle > timer.periodUs
    /\ resumedAt.wait >= timer.periodUs
    /\ resumedAt.at + resumedAt.wait = now

\* C17 (as stated): the same, with the spinOnce right after resume() never
\* firing, whatever the period.
C17_SpinOnceAfterResumeNeverFires ==
    [][ /\ op' = "timer.resume"
            => (timer'.active /\ timer'.lastFire = now)
        /\ (op' = "timer.spinOnce" /\ ret'
             /\ resumedAt.set /\ ~resumedAt.fired)
            => now - resumedAt.at >= timer.periodUs
        /\ (op = "timer.resume" /\ op' = "timer.spinOnce")
            => ~ret' ]_vars

\* C18: sleep() called with elapsed = now - lastTime below the period blocks
\* the caller for exactly period - elapsed microseconds, on the delay() path
\* and on the busy-wait path.
C18_SleepBlocksExactRemainder ==
    [][ (op' = "rate.sleep" /\ now - rate.lastTime < rate.periodUs)
        => blocked' = rate.periodUs - (now - rate.lastTime) ]_vars

\* C19: sleep() called with elapsed >= period does not block; no call blocks
\* for more than one period; every call ends with lastTime set to the clock
\* value read after waking, so that lateness is not carried over.
C19_SleepLateReturnsNoCatchUp ==
    [][ op' = "rate.sleep" =>
          /\ (now - rate.lastTime >= rate.periodUs) => blocked' = 0
          /\ blocked' >= 0 /\ blocked' <= rate.periodUs
          /\ now' = now + blocked'
          /\ rate'.lastTime = now'
          /\ rate'.periodUs = rate.periodUs ]_vars

\* C19 witness: a sleep() that came more than a period after the previous
\* one, itself a blocking one, has returned without blocking.
C19_Witness ==
    /\ op = "rate.sleep"
    /\ sleeps >= 2
    /\ rate.periodUs > 0
    /\ elapsedSeen > rate.periodUs
    /\ blocked = 0
    /\ rate.lastTime = now

\* the create calls that store into each collection
PublisherCreates ==
    {"createPublisher", "createBroadcastPublisher", "createMulticastPublisher"}
SubscriptionCreates ==
    {"createSubscription", "createSubscription(polling)",
     "createMulticastSubscription"}

\* C20: a Node never owns more than 8 publishers, 8 subscriptions or 8
\* timers; a create call made when its collection holds 8 returns null and
\* changes nothing: the Node's collections, the TopicRegistry and the number
\* of transport objects allocated stay as they were.
C20_NodeCapacityNoSideEffects ==
    /\ [](/\ Len(node.publishers) <= MAX_PUBLISHERS
          /\ Len(node.subscriptions) <= MAX_SUBSCRIPTIONS
          /\ Len(node.timers) <= MAX_TIMERS)
    /\ [][ (\/ (op' \in PublisherCreates
                /\ Len(node.publishers) = MAX_PUBLISHERS)
            \/ (op' \in SubscriptionCreates
                /\ Len(node.subscriptions) = MAX_SUBSCRIPTIONS)
            \/ (op' = "createTimer" /\ Len(node.timers) = MAX_TIMERS))
           => (/\ ret' = FALSE
               /\ node' = node
               /\ topics' = topics
               /\ live' = live) ]_vars

\* C20 witness: createPublisher on a topic no entry of the registry names
\* has just returned null from a Node that owns 8 publishers.
C20_Witness ==
    /\ op = "createPublisher" /\ ret = FALSE
    /\ Len(node.publishers) = MAX_PUBLISHERS
    /\ ~Registered(topics, arg)

\* what may be pending on a subscription's port: up to two datagrams, of
\* every length
PendingQueues ==
    {<<>>}
    \cup {<<Datagram(1, l)>> : l \in DatagramLens}
    \cup {<<Datagram(1, l1), Datagram(2, l2)>> : l1, l2 \in DatagramLens}

\* take, spinOnce and spinAll on s with q pending return false / 0 and leave
\* the counters and the queue as they are
DeadHandle(s, q) ==
    LET a == Subscription_take(s, q, now, out)
        b == Subscription_spinOnce(s, q, now, out)
        c == Subscription_spinAll(s, q, now, out) IN
    /\ a.ret = FALSE /\ a.sub = s /\ a.rxq = q /\ a.out = out
    /\ b.ret = FALSE /\ b.sub = s /\ b.rxq = q /\ b.calls = <<>>
    /\ c.ret = 0 /\ c.sub = s /\ c.rxq = q /\ c.calls = <<>>

\* the create calls that store whatever init() returned
StoringCreates == PublisherCreates \cup {"createSubscription"}

\* C21: below capacity createPublisher, createBroadcastPublisher,
\* createMulticastPublisher and plain createSubscription store the new object
\* and return a non-null handle, the count growing by exactly 1, whether or
\* not init() succeeded; a stored subscription whose init() failed answers
\* take and spinOnce with false and spinAll with 0, changes no counter and
\* consumes no datagram.
C21_CreateStoresWhateverInitReturned ==
    /\ [][ (/\ op' \in PublisherCreates
            /\ Len(node.publishers) < MAX_PUBLISHERS)
           => (/\ ret' = TRUE
               /\ Len(node'.publishers) = Len(node.publishers) + 1
               /\ SubSeq(node'.publishers, 1, Len(node.publishers))
                     = node.publishers
               /\ node'.subscriptions = node.subscriptions
               /\ live' = live + 1) ]_vars
    /\ [][ (/\ op' = "createSubscription"
            /\ Len(node.subscriptions) < MAX_SUBSCRIPTIONS)
           => (/\ ret' = TRUE
               /\ Len(node'.subscriptions) = Len(node.subscriptions) + 1
               /\ SubSeq(node'.subscriptions, 1, Len(node.subscriptions))
                     = node.subscriptions
               /\ node'.subscriptions[Len(node'.subscriptions)]
                     .obj.initialized = arg'.bound
               /\ node'.publishers = node.publishers
               /\ live' = live + 1) ]_vars
    /\ [](\A i \in 1..Len(node.subscriptions) :
             ~node.subscriptions[i].obj.initialized
             => \A q \in PendingQueues :
                   DeadHandle(node.subscriptions[i].obj, q))

\* C21 witness: createSubscription has just returned a handle to a stored
\* subscription whose bind failed.
C21_Witness ==
    /\ op = "createSubscription" /\ ret = TRUE
    /\ arg.bound = FALSE
    /\ Len(node.subscriptions) >= 1
    /\ ~node.subscriptions[Len(node.subscriptions)].obj.initialized

\* C22: createMulticastSubscription keeps the subscription only if
\* initMulticast succeeded: then the count grows by exactly 1 and the handle
\* is non-null; when initMulticast failed the object is deleted, null is
\* returned and the Node's subscriptions are as they were.
C22_MulticastSubscriptionKeptIffInit ==
    [][ (/\ op' = "createMulticastSubscription"
         /\ Len(node.subscriptions) < MAX_SUBSCRIPTIONS)
        => LET ok == Subscription_initMulticast(
                         Subscription(TRUE, DefaultDepth),
                         arg'.joined, arg'.bound).initialized IN
           /\ ret' = ok
           /\ ok => /\ Len(node'.subscriptions) = Len(node.subscriptions) + 1
                     /\ SubSeq(node'.subscriptions, 1, Len(node.subscriptions))
                           = node.subscriptions
                     /\ node'.subscriptions[Len(node'.subscriptions)]
                           .obj.initialized
                     /\ live' = live + 1
           /\ ~ok => (node' = node /\ live' = live) ]_vars

\* C22 witness: below capacity, createMulticastSubscription has just returned
\* null because neither beginMulticast nor the fallback bind succeeded.
C22_Witness ==
    /\ op = "createMulticastSubscription" /\ ret = FALSE
    /\ ~arg.joined /\ ~arg.bound
    /\ Len(node.subscriptions) < MAX_SUBSCRIPTIONS

\* C23: initMulticast(group) returns true only if the port is bound and the
\* group joined, through beginMulticast or through a plain bind followed by
\* a successful join request, and false whenever the port could not be bound
\* or the group could not be joined.
C23_InitMulticastReportsJoinFailure ==
    [][ op' = "sub.initMulticast"
        => (ret' = (arg'.joined \/ (arg'.bound /\ arg'.igmp))) ]_vars

\* C26: for every depth, 0 included, one spinAll() call processes at most
\* depth messages: neither the callback invocations nor the returned count
\* exceed depth, and with depth 0 no message is processed and 0 returned.
C26_SpinAllWithinDepth ==
    [][ op' = "spinAll"
        => (/\ ret' <= sub.depth
            /\ Len(calls') <= sub.depth
            /\ sub'.recvCount - sub.recvCount <= sub.depth) ]_vars

\* the position of the first pending datagram whose length is not sizeof(T),
\* 0 when there is none
FirstWrongLength(q) ==
    IF \A i \in 1..Len(q) : ValidLen(q[i]) THEN 0
    ELSE CHOOSE i \in 1..Len(q) :
            ~ValidLen(q[i]) /\ \A j \in 1..(i - 1) : ValidLen(q[j])

\* C27: with depth d >= 1 spinAll() removes at most d datagrams, valid or
\* not; it stops at the first spinOnce that returns false: a wrong-length
\* datagram among the first d pending is dropped (dropped + 1) and ends the
\* pass, the datagrams behind it staying queued.
C27_SpinAllStopsAtWrongLength ==
    [][ (op' = "spinAll" /\ sub.initialized /\ sub.depth >= 1)
        => LET j == FirstWrongLength(rxq) IN
           /\ Len(rxq) - Len(rxq') <= sub.depth
           /\ rxq' = SubSeq(rxq, Len(rxq) - Len(rxq') + 1, Len(rxq))
           /\ (j >= 1 /\ j <= sub.depth)
                => (/\ rxq' = SubSeq(rxq, j + 1, Len(rxq))
                    /\ sub'.dropCount = sub.dropCount + 1
                    /\ sub'.recvCount = sub.recvCount + (j - 1)
                    /\ ret' = j - 1) ]_vars

\* the calls that read the subscription's socket
ReceiveCalls == {"take", "spinOnce", "spinAll"}

\* C28: across take, spinOnce and spinAll, received + dropped grows by the
\* number of datagrams the call removed from the queue, each removed
\* datagram being counted in exactly one of the two, and neither counter
\* ever decreases.
C28_ReceivedPlusDroppedIsRemoved ==
    /\ [][ op' \in ReceiveCalls
           => (/\ (sub'.recvCount - sub.recvCount)
                    + (sub'.dropCount - sub.dropCount)
                  = Len(rxq) - Len(rxq')
               /\ rxq' = SubSeq(rxq, Len(rxq) - Len(rxq') + 1, Len(rxq))
               /\ sub'.recvCount - sub.recvCount
                  = Cardinality({i \in 1..(Len(rxq) - Len(rxq')) :
                                   Len(rxq[i]) >= SizeofT})
               /\ sub'.dropCount - sub.dropCount
                  = Cardinality({i \in 1..(Len(rxq) - Len(rxq')) :
                                   Len(rxq[i]) < SizeofT})) ]_vars
    /\ [][ sub'.recvCount >= sub.recvCount
           /\ sub'.dropCount >= sub.dropCount ]_vars

\* C28 witness: one spinAll call has just received a message and then
\* dropped a short datagram.
C28_Witness ==
    /\ op = "spinAll" /\ ret >= 1
    /\ lastSize > 0 /\ lastSize < SizeofT
    /\ sub.recvCount >= 1 /\ sub.dropCount >= 1

\* C30: after any sequence of publish and publishRaw calls,
\* getPublishCount() is the number of datagrams the transport accepted from
\* this publisher: each successful send, through either call, adds 1.
C30_PublishCountIsAcceptedSends ==
    /\ [](pub.pubCount = Len(wire))
    /\ [][ (op' \in {"publish", "publishRaw"} /\ ret' = TRUE)
           => pub'.pubCount = pub.pubCount + 1 ]_vars

\* values of T at the ends and in the middle of its range
RoundTripValues == {0, 1, 255, 256, 258, 1027, 65535}

\* C25: on a loopback transport that delivers every accepted datagram, with
\* the Publisher and the Subscription (same port) both initialised,
\* publish(v) followed by one take(out) returns true with out = v byte for
\* byte; after the first such pair received = 1, dropped = 0 and sent = 1.
C25_LoopbackRoundTrip ==
    /\ [](\A v \in RoundTripValues \cup PubMsgs : Decode(Encode(v)) = v)
    /\ [][ (op' = "publish" /\ pub.initialized /\ arg'.accepted)
           => (/\ ret' = TRUE
               /\ wire' = Append(wire, Encode(arg'.msg))
               /\ pub'.pubCount = pub.pubCount + 1) ]_vars
    /\ [][ (op' = "take" /\ sub.initialized /\ rxq # <<>>)
           => (/\ ret' = TRUE
               /\ \E v \in PubMsgs : Head(rxq) = Encode(v) /\ out' = v
               /\ Encode(out') = Head(rxq)
               /\ sub'.recvCount = sub.recvCount + 1) ]_vars
    /\ [](sub.dropCount = 0)
    /\ [](pub.pubCount = Len(wire))
    /\ [](sub.recvCount + Len(rxq) <= arrived /\ arrived <= pub.pubCount)

\* C25 witness: a broadcast Publisher has published one value, the transport
\* has delivered it and one take has returned it: received = 1, dropped = 0,
\* sent = 1.
C25_Witness ==
    /\ op = "take" /\ ret = TRUE
    /\ pub.broadcast /\ pub.initialized /\ sub.initialized
    /\ Len(wire) = 1 /\ Encode(out) = wire[1] /\ out \in PubMsgs
    /\ pub.pubCount = 1
    /\ sub.recvCount = 1 /\ sub.dropCount = 0

C29_NewTimerWaitsFullPeriod ==
    [][ op' = "node.spinOnce"
        => \A i \in 1..Len(node.timers) :
              now - born[i] < node.timers[i].periodUs
              => ~polled'[i].fired ]_vars

\* C31: a Node create call that returns null leaves the TopicRegistry as it
\* was, so that a name is in the registry only if a publisher or subscription
\* stored by the Node, or registered before, was created for it; a
\* createMulticastSubscription whose initMulticast failed adds no entry.
C31_NullCreateLeavesRegistry ==
    /\ [][ (op' \in PublisherCreates \cup SubscriptionCreates
             /\ ret' = FALSE)
           => topics' = topics ]_vars
    /\ [](\A i \in 1..Len(topics) :
             \/ \E j \in 1..Len(node.publishers) :
                   node.publishers[j].topic = topics[i].name
             \/ \E j \in 1..Len(node.subscriptions) :
                   node.subscriptions[j].topic = topics[i].name)

(***************************************************************************)
(* UDPComm: begin, send, update and end against a Wi-Fi link that comes and *)
(* goes.                                                                    *)
(***************************************************************************)
\* when the link comes up during a connection attempt, in ms after its start
UpAfters == {0, 250, LinkNever}

\* the Config objects begin(const Config&) is called with
Configs == {[autoReconnect |-> ar, connectionTimeout |-> to] :
               ar \in BOOLEAN, to \in {PollMs, DefaultConnectionTimeout}}

\* comm.begin(ssid, password, serverIP, serverPort)
CommBegin ==
    /\ \E upAfter \in UpAfters, bound \in BOOLEAN :
          LET r == UDPComm_begin(comm, upAfter, bound) IN
          /\ comm' = r.comm
          /\ wifi' = r.wifi
          /\ ret' = r.ok
          /\ beginFailed' = ~r.ok
          /\ arg' = [upAfter |-> upAfter, bound |-> bound]
    /\ op' = "begin"
    /\ UNCHANGED <<now, subVars, pubVars, regVars, timerVars, rateVars,
                   nodeVars>>

\* comm.begin(config)
CommBeginConfig ==
    /\ \E config \in Configs, upAfter \in UpAfters, bound \in BOOLEAN :
          LET r == UDPComm_beginConfig(comm, config, upAfter, bound) IN
          /\ comm' = r.comm
          /\ wifi' = r.wifi
          /\ ret' = r.ok
          /\ beginFailed' = ~r.ok
          /\ arg' = [upAfter |-> upAfter, bound |-> bound]
    /\ op' = "begin"
    /\ UNCHANGED <<now, subVars, pubVars, regVars, timerVars, rateVars,
                   nodeVars>>

\* comm.send(data)
CommSend ==
    /\ comm.stats.packetsSent + comm.stats.sendErrors < MaxSends
    /\ \E sent \in BOOLEAN :
          LET r == UDPComm_send(comm, now, sent) IN
          /\ comm' = r.comm
          /\ ret' = r.ret
          /\ arg' = [sent |-> sent]
    /\ op' = "send"
    /\ UNCHANGED <<now, wifi, beginFailed, subVars, pubVars, regVars,
                   timerVars, rateVars, nodeVars>>

\* comm.update()
CommUpdate ==
    /\ \E upAfter \in UpAfters :
          LET r == UDPComm_update(comm, wifi, upAfter) IN
          /\ comm' = r.comm
          /\ wifi' = r.wifi
          /\ arg' = [upAfter |-> upAfter]
    /\ op' = "update" /\ ret' = FALSE
    /\ UNCHANGED <<now, beginFailed, subVars, pubVars, regVars, timerVars,
                   rateVars, nodeVars>>

\* comm.end(): WiFi.disconnect() takes the link down
CommEnd ==
    /\ comm' = UDPComm_end(comm)
    /\ wifi' = FALSE
    /\ op' = "end" /\ arg' = NoArg /\ ret' = FALSE
    /\ UNCHANGED <<now, beginFailed, subVars, pubVars, regVars, timerVars,
                   rateVars, nodeVars>>

\* the access point goes away, or the radio reassociates by itself
LinkChange ==
    /\ wifi' = ~wifi
    /\ op' = "link" /\ arg' = NoArg /\ ret' = FALSE
    /\ UNCHANGED <<now, comm, beginFailed, subVars, pubVars, regVars,
                   timerVars, rateVars, nodeVars>>

\* one UDPComm and the link under it
InitComm ==
    /\ EnvInit
    /\ SubInit0(TRUE, 1)
    /\ PubInit0(0, FALSE)
    /\ RegInit0
    /\ IdleInit0

NextComm ==
    \/ Tick
    \/ CommBegin
    \/ CommBeginConfig
    \/ CommSend
    \/ CommUpdate
    \/ CommEnd
    \/ LinkChange

SpecComm == InitComm /\ [][NextComm]_vars

\* C32: whenever begin() returns false the status afterwards is not
\* CONNECTED, so every send() from then until a begin() that returns true
\* returns false and increments sendErrors; and after end() the status is
\* DISCONNECTED and the send() that follows returns false.
C32_FailedBeginNotConnected ==
    /\ [][ (op' = "begin" /\ ret' = FALSE)
           => comm'.status # "CONNECTED" ]_vars
    /\ [][ (beginFailed /\ op' = "send")
           => /\ ret' = FALSE
              /\ comm'.stats.sendErrors = comm.stats.sendErrors + 1 ]_vars
    /\ [][ op' = "end" => comm'.status = "DISCONNECTED" ]_vars
    /\ [][ (op = "end" /\ op' = "send") => ret' = FALSE ]_vars

=============================================================================
